---------------------------- MODULE Spec2Model ----------------------------
(***************************************************************************)
(* A model of the handle layer of the llama crate (src/src/lib.rs and      *)
(* src/src/pass_manager.rs): checked non-null handles, the self-disposing  *)
(* Message and MemoryBuffer wrappers and the two pass-manager handles,     *)
(* running against a model of the native toolkit's heap.                   *)
(*                                                                         *)
(* Pointers are natural numbers: NULL is the null pointer and the native   *)
(* object at address p is nat[p].  Addresses are never reused, so the      *)
(* number of dispose calls made on an address is well defined.             *)
(***************************************************************************)
EXTENDS Integers, Sequences, FiniteSets, Bags, TLC

VARIABLES
    nat,    \* the native heap: nat[p] is the native object at address p
    fs,     \* the file system: path bytes -> file content, or NoFile
    host,   \* the bag of live host values (handles, messages, errors)
    last    \* what the last host operation was given and what it returned

vars == <<nat, fs, host, last>>

(***************************************************************************)
(* Bounds of the model.                                                    *)
(***************************************************************************)
MaxLen == 1        \* longest byte slice handed to from_slice
MaxAlloc == 2      \* native buffers and messages allocated in one run
MaxHandles == 2    \* buffers, messages and errors alive at once
MaxObjects == 4    \* native contexts, modules, functions, pass managers
MaxManagers == 2   \* native pass managers created in one run
MaxQueue == 2      \* transforms handed to one pass manager

NULL == 0          \* std::ptr::null_mut()

\* A path with no file behind it, and a file holding the bytes data.
NoFile == [exists |-> FALSE, data |-> <<>>]
File(data) == [exists |-> TRUE, data |-> data]

(***************************************************************************)
(* Inputs.  Byte 0 is NUL, byte 255 never occurs in valid UTF-8.           *)
(***************************************************************************)
RECURSIVE SeqsUpTo(_, _)
SeqsUpTo(S, n) ==
    IF n = 0 THEN {<<>>}
    ELSE LET shorter == SeqsUpTo(S, n - 1)
         IN  shorter \cup {Append(s, b) : s \in shorter, b \in S}

Slices == SeqsUpTo({0, 97}, MaxLen)
Names == {<<110>>, <<110, 0, 109>>}
Paths == {<<112>>, <<112, 0, 113>>, <<255>>}
WritePaths == {<<112>>, <<112, 0, 113>>}
NativeStrings == {<<>>, <<69, 114>>}

(***************************************************************************)
(* C strings.                                                              *)
(***************************************************************************)
HasNul(s) == \E i \in 1..Len(s) : s[i] = 0

\* Path::to_str: Some exactly when the path's bytes are valid UTF-8.  Over
\* the bytes used here (0, ASCII letters, 255) that is: no byte above 127.
to_str(path) ==
    IF \A i \in 1..Len(path) : path[i] < 128
    THEN [some |-> TRUE, str |-> path]
    ELSE [some |-> FALSE, str |-> <<>>]

\* cstr! writing the terminating NUL over the last byte instead of after it.
cstr_short(x) ==
    IF HasNul(x)
    THEN [panic |-> TRUE, mem |-> <<>>]
    ELSE [panic |-> FALSE, mem |-> Append(SubSeq(x, 1, Len(x) - 1), 0)]

\* cstr!: CString::new(x).expect("Invalid C string"): the bytes followed by a
\* terminating NUL, or a panic when the bytes hold a NUL themselves.
cstr(x) ==
    IF HasNul(x)
    THEN [panic |-> TRUE, mem |-> <<>>]
    ELSE [panic |-> FALSE, mem |-> Append(x, 0)]

\* strlen: the number of bytes before the first NUL of the memory at a
\* char pointer.
RECURSIVE strlenFrom(_, _)
strlenFrom(mem, i) ==
    IF i > Len(mem) \/ mem[i] = 0 THEN i - 1 ELSE strlenFrom(mem, i + 1)

strlen(mem) == strlenFrom(mem, 1)

\* std::slice::from_raw_parts(data, size): the first size bytes at data.
from_raw_parts(mem, size) == SubSeq(mem, 1, size)

(***************************************************************************)
(* The native heap.                                                        *)
(***************************************************************************)
NativeObject(kind, mem, size, ctor, parent) ==
    [kind |-> kind, mem |-> mem, size |-> size, ctor |-> ctor,
     parent |-> parent, queue |-> <<>>, disposed |-> <<>>]

CanAlloc(n) == Len(n) < MaxAlloc

\* A native allocation: the new heap; the new object's address is its length.
Alloc(n, obj) == Append(n, obj)

\* A native dispose function called on address p: the call is counted and the
\* object's memory is gone.
Dispose(n, p, fn) ==
    [n EXCEPT ![p].disposed = Append(@, fn), ![p].mem = <<>>, ![p].size = 0,
              ![p].queue = <<>>]

(***************************************************************************)
(* Host values.                                                            *)
(***************************************************************************)
\* A host value: its type, its inner pointer, the native Context its
\* lifetime parameter borrows from (NULL when it borrows from none), and two
\* history fields that the program does not hold: the name a Module or the
\* string a Message was created from, and the concatenation, in call order,
\* of the slices a pass manager was given by add.
HostValue(type, ptr, ctx, name) ==
    [type |-> type, ptr |-> ptr, ctx |-> ctx, name |-> name, added |-> <<>>]

Live == BagToSet(host)
HasRoom ==
    LET held == {v \in Live : v.type \in {"MemoryBuffer", "Message", "Error::Message"}}
    IN  BagCardinality([v \in held |-> CopiesIn(v, host)]) < MaxHandles
Keep(v) == host (+) SetToBag({v})
Forget(v) == host (-) SetToBag({v})

\* What a host operation returned: the result, the pointer of the value it
\* returned or acted on, whether it called the native function it wraps and
\* the status that call returned, and what else the claims read.
Returned(op, status, err, handle, call) ==
    [op |-> op, status |-> status, err |-> err, handle |-> handle,
     called |-> call # <<>>, native |-> IF call = <<>> THEN 0 ELSE call[1],
     len |-> 0, bytes |-> <<>>, arg |-> <<>>, ret |-> FALSE,
     fn |-> "", applied |-> <<>>, raw |-> NULL, freed |-> <<>>]

NoCall == <<>>
Called(status) == <<status>>

\* wrap_inner without its null check.
wrap_inner_unchecked(x) == [ok |-> TRUE, ptr |-> x, err |-> "None"]

\* wrap_inner: NonNull::new(x), or Error::NullPointer.
wrap_inner(x) ==
    IF x # NULL
    THEN [ok |-> TRUE, ptr |-> x, err |-> "None"]
    ELSE [ok |-> FALSE, ptr |-> NULL, err |-> "NullPointer"]

Init ==
    /\ nat = <<>>
    /\ fs = [p \in {q \in WritePaths : ~HasNul(q)} |-> NoFile]
    /\ host = EmptyBag
    /\ last = Returned("init", "Ok", "None", NULL, NoCall)


(***************************************************************************)
(* Message (lib.rs).                                                       *)
(***************************************************************************)
\* Message::from_raw: wraps the pointer as it is, null included.
Message_from_raw(c) == c

\* Message::len
Message_len(n, m) ==
    IF m = NULL THEN 0 ELSE strlen(n[m].mem)

\* as_ref taking one byte too many: the terminating NUL as well.
Message_as_ref_with_nul(n, m) ==
    IF m = NULL
    THEN <<60, 78, 85, 76, 76, 62>>
    ELSE from_raw_parts(n[m].mem, Message_len(n, m) + 1)

\* impl AsRef<str> for Message
Message_as_ref(n, m) ==
    IF m = NULL
    THEN <<60, 78, 85, 76, 76, 62>>      \* "<NULL>"
    ELSE from_raw_parts(n[m].mem, Message_len(n, m))

\* impl Drop for Message: the heap after it, and the pointers it handed to
\* LLVMDisposeMessage.
Message_drop(n, m) ==
    IF m # NULL
    THEN [nat |-> Dispose(n, m, "LLVMDisposeMessage"), freed |-> <<m>>]
    ELSE [nat |-> n, freed |-> <<>>]

(***************************************************************************)
(* MemoryBuffer (lib.rs).                                                  *)
(***************************************************************************)
\* MemoryBuffer::from_raw
MemoryBuffer_from_raw(ptr) == wrap_inner(ptr)

\* MemoryBuffer::len: LLVMGetBufferSize
MemoryBuffer_len(n, b) == n[b].size

\* impl AsRef<[u8]> for MemoryBuffer: LLVMGetBufferStart and the size
MemoryBuffer_as_ref(n, b) == from_raw_parts(n[b].mem, MemoryBuffer_len(n, b))

\* impl Drop for MemoryBuffer
MemoryBuffer_drop(n, b) == Dispose(n, b, "LLVMDisposeMemoryBuffer")

\* The native LLVMCreateMemoryBufferWithContentsOfFile(path, &mem, &message):
\* it reads the file named by the C string.  A file that is there gives
\* status 0 and a new buffer in mem, message left as it was (null); a file
\* that is not gives status 1, mem left null and a newly allocated diagnostic
\* in message.
ReadDiagnostic == <<69, 114>>

LLVMCreateMemoryBufferWithContentsOfFile(n, files, cpath) ==
    LET name == from_raw_parts(cpath, strlen(cpath))
    IN  IF name \in DOMAIN files /\ files[name].exists
        THEN [status |-> 0, mem |-> Len(n) + 1, message |-> NULL,
              nat |-> Alloc(n, NativeObject("buffer", Append(files[name].data, 0),
                                   Len(files[name].data),
                                   "LLVMCreateMemoryBufferWithContentsOfFile", NULL))]
        ELSE [status |-> 1, mem |-> NULL, message |-> Len(n) + 1,
              nat |-> Alloc(n, NativeObject("message", Append(ReadDiagnostic, 0),
                                   0, "LLVMCreateMemoryBufferWithContentsOfFile", NULL))]

\* MemoryBuffer::from_file
from_file(path) ==
    LET p == to_str(path)
        c == cstr(p.str)
        r == LLVMCreateMemoryBufferWithContentsOfFile(nat, fs, c.mem)
        ok == (r.status = 1)
        message == Message_from_raw(r.message)
        w == MemoryBuffer_from_raw(r.mem)
        dropped == Message_drop(r.nat, message)
        called(st, err, h, freed) ==
            [Returned("from_file", st, err, h, Called(r.status)) EXCEPT
                !.arg = path, !.raw = r.mem, !.freed = freed]
        notcalled(st, err) ==
            [Returned("from_file", st, err, NULL, NoCall) EXCEPT !.arg = path]
    IN  IF ~p.some
        THEN /\ last' = notcalled("Err", "InvalidPath")
             /\ UNCHANGED <<nat, fs, host>>
        ELSE IF c.panic
        THEN /\ last' = notcalled("Panic", "None")
             /\ UNCHANGED <<nat, fs, host>>
        ELSE /\ CanAlloc(nat)
             /\ HasRoom
             /\ UNCHANGED fs
             /\ IF ~ok
                THEN \* return Err(Error::Message(message))
                     /\ nat' = r.nat
                     /\ host' = Keep(HostValue("Error::Message", message, NULL,
                                           IF message = NULL THEN <<>> ELSE ReadDiagnostic))
                     /\ last' = called("Err", "Message", message, <<>>)
                ELSE IF w.ok
                THEN \* Ok(MemoryBuffer), message dropped at the end of scope
                     /\ nat' = dropped.nat
                     /\ host' = Keep(HostValue("MemoryBuffer", w.ptr, NULL, <<>>))
                     /\ last' = called("Ok", "None", w.ptr, dropped.freed)
                ELSE \* Err(NullPointer), message dropped at the end of scope
                     /\ nat' = dropped.nat
                     /\ host' = host
                     /\ last' = called("Err", w.err, NULL, dropped.freed)

\* The native LLVMCreateMemoryBufferWithMemoryRangeCopy(data, len, name): a
\* new buffer holding a copy of the len bytes (and a NUL after them), or
\* null when the allocation fails.
LLVMCreateMemoryBufferWithMemoryRangeCopy(n, s, fails) ==
    IF fails
    THEN [mem |-> NULL, nat |-> n]
    ELSE [mem |-> Len(n) + 1,
          nat |-> Alloc(n, NativeObject("buffer", Append(s, 0), Len(s),
                               "LLVMCreateMemoryBufferWithMemoryRangeCopy", NULL))]

\* MemoryBuffer::from_slice
from_slice(name, s, fails) ==
    LET c == cstr(name)
        r == LLVMCreateMemoryBufferWithMemoryRangeCopy(nat, s, fails)
        w == MemoryBuffer_from_raw(r.mem)
        res(st, err, h, called) ==
            [Returned("from_slice", st, err, h, called)
                EXCEPT !.arg = name, !.raw = r.mem]
    IN  IF c.panic
        THEN /\ last' = [Returned("from_slice", "Panic", "None", NULL, NoCall)
                            EXCEPT !.arg = name]
             /\ UNCHANGED <<nat, fs, host>>
        ELSE /\ CanAlloc(nat)
             /\ HasRoom
             /\ UNCHANGED fs
             /\ nat' = r.nat
             /\ IF w.ok
                THEN /\ host' = Keep(HostValue("MemoryBuffer", w.ptr, NULL, <<>>))
                     /\ last' = res("Ok", "None", w.ptr, Called(0))
                ELSE /\ host' = host
                     /\ last' = res("Err", w.err, NULL, Called(0))

\* MemoryBuffer::write_to_file: File::create(path)?, then write_all of the
\* buffer's bytes.  File::create fails on a path that holds a NUL, and may
\* fail on any other (createFails); the failure is returned as Error::Io.
write_to_file(v, path, createFails) ==
    /\ v.type = "MemoryBuffer"
    /\ LET res(st, err) ==
               [Returned("write_to_file", st, err, v.ptr, NoCall) EXCEPT
                    !.arg = path]
       IN  IF HasNul(path) \/ createFails
           THEN /\ last' = res("Err", "Io")
                /\ UNCHANGED <<nat, fs, host>>
           ELSE /\ fs' = [fs EXCEPT ![path] = File(MemoryBuffer_as_ref(nat, v.ptr))]
                /\ last' = res("Ok", "None")
                /\ UNCHANGED <<nat, host>>

\* Reading a buffer: len() and as_ref().
MemoryBufferRead(v) ==
    /\ v.type = "MemoryBuffer"
    /\ last' = [Returned("MemoryBuffer::as_ref", "Ok", "None", v.ptr, NoCall) EXCEPT
                    !.len = MemoryBuffer_len(nat, v.ptr),
                    !.bytes = MemoryBuffer_as_ref(nat, v.ptr)]
    /\ UNCHANGED <<nat, fs, host>>

\* A MemoryBuffer goes out of scope.
DropMemoryBuffer(v) ==
    /\ v.type = "MemoryBuffer"
    /\ nat' = MemoryBuffer_drop(nat, v.ptr)
    /\ host' = Forget(v)
    /\ last' = Returned("drop", "Ok", "None", NULL, NoCall)
    /\ UNCHANGED fs

\* A native call hands the layer a diagnostic string (or null) and the layer
\* wraps it: Message::from_raw.
MessageFromRaw(s, isNull) ==
    /\ HasRoom
    /\ IF isNull
       THEN /\ nat' = nat
            /\ host' = Keep(HostValue("Message", Message_from_raw(NULL), NULL, <<>>))
            /\ last' = Returned("Message::from_raw", "Ok", "None", NULL, NoCall)
       ELSE /\ CanAlloc(nat)
            /\ nat' = Alloc(nat, NativeObject("message", Append(s, 0), 0,
                                     "LLVMCreateMessage", NULL))
            /\ host' = Keep(HostValue("Message", Message_from_raw(Len(nat) + 1), NULL, s))
            /\ last' = Returned("Message::from_raw", "Ok", "None", Len(nat) + 1, NoCall)
    /\ UNCHANGED fs

IsMessage(v) == v.type \in {"Message", "Error::Message"}

\* Message::len() and as_ref() of a live Message (also one held by an Error).
MessageRead(v) ==
    /\ IsMessage(v)
    /\ last' = [Returned("Message::as_ref", "Ok", "None", v.ptr, NoCall) EXCEPT
                    !.len = Message_len(nat, v.ptr),
                    !.bytes = Message_as_ref(nat, v.ptr),
                    !.arg = v.name]
    /\ UNCHANGED <<nat, fs, host>>

\* impl From<Message> for String: the bytes of as_ref(), and the Message,
\* taken by value, is dropped.
StringFromMessage(v) ==
    /\ v.type = "Message"
    /\ last' = [Returned("String::from", "Ok", "None", v.ptr, NoCall) EXCEPT
                    !.len = Message_len(nat, v.ptr),
                    !.bytes = Message_as_ref(nat, v.ptr),
                    !.arg = v.name,
                    !.freed = Message_drop(nat, v.ptr).freed]
    /\ nat' = Message_drop(nat, v.ptr).nat
    /\ host' = Forget(v)
    /\ UNCHANGED fs

\* A Message, or an Error holding one, goes out of scope.
DropMessage(v) ==
    /\ IsMessage(v)
    /\ nat' = Message_drop(nat, v.ptr).nat
    /\ host' = Forget(v)
    /\ last' = [Returned("Message::drop", "Ok", "None", v.ptr, NoCall) EXCEPT
                    !.freed = Message_drop(nat, v.ptr).freed]
    /\ UNCHANGED fs

FromFile == \E path \in Paths : from_file(path)
FromSlice == \E name \in Names, s \in Slices, fails \in BOOLEAN : from_slice(name, s, fails)
WriteToFile == \E v \in Live, path \in WritePaths, fails \in BOOLEAN : write_to_file(v, path, fails)
ReadBuffer == \E v \in Live : MemoryBufferRead(v)
DropBuffer == \E v \in Live : DropMemoryBuffer(v)
NewMessage == \E s \in NativeStrings, isNull \in BOOLEAN : MessageFromRaw(s, isNull)
ReadMessage == \E v \in Live : MessageRead(v)
MessageToString == \E v \in Live : StringFromMessage(v)
DropMsg == \E v \in Live : DropMessage(v)

NextBuf ==
    \/ FromFile
    \/ FromSlice
    \/ WriteToFile
    \/ ReadBuffer
    \/ DropBuffer
    \/ NewMessage
    \/ ReadMessage
    \/ MessageToString
    \/ DropMsg

SpecBuf == Init /\ [][NextBuf]_vars

(***************************************************************************)
(* Context, Module and Func.  module.rs, context.rs and value.rs are not   *)
(* among the sources: these follow the specification (sections 3, 4.4) and *)
(* the uses in lib.rs (tests::it_works) and pass_manager.rs.               *)
(***************************************************************************)
CanAllocObject(n) == Len(n) < MaxObjects

ModuleNames == {<<116, 101>>, <<116, 0, 101>>}

\* Context::new: a new native context, or NullPointer when the native
\* constructor returns null.
Context_new(fails) ==
    LET ptr == IF fails THEN NULL ELSE Len(nat) + 1
        w == wrap_inner(ptr)
    IN  /\ CanAllocObject(nat)
        /\ nat' = IF fails THEN nat
                  ELSE Alloc(nat, NativeObject("context", <<>>, 0, "LLVMContextCreate", NULL))
        /\ host' = IF w.ok THEN Keep(HostValue("Context", w.ptr, NULL, <<>>)) ELSE host
        /\ last' = Returned("Context::new", IF w.ok THEN "Ok" ELSE "Err", w.err, w.ptr, Called(0))
        /\ UNCHANGED fs

\* Module::new(&context, name): the name goes to the native constructor as a
\* C string; the native module keeps the bytes before its NUL as identifier.
Module_new(c, name, fails) ==
    LET cname == cstr(name)
        ptr == IF fails THEN NULL ELSE Len(nat) + 1
        w == wrap_inner(ptr)
    IN  /\ c.type = "Context"
        /\ IF cname.panic
           THEN /\ last' = [Returned("Module::new", "Panic", "None", NULL, NoCall)
                               EXCEPT !.arg = name]
                /\ UNCHANGED <<nat, fs, host>>
           ELSE /\ CanAllocObject(nat)
                /\ nat' = IF fails THEN nat
                          ELSE Alloc(nat, NativeObject("module", cname.mem, strlen(cname.mem),
                                              "LLVMModuleCreateWithNameInContext", c.ptr))
                /\ host' = IF w.ok THEN Keep(HostValue("Module", w.ptr, c.ptr, name)) ELSE host
                /\ last' = [Returned("Module::new", IF w.ok THEN "Ok" ELSE "Err", w.err, w.ptr, Called(0))
                               EXCEPT !.arg = name]
                /\ UNCHANGED fs

\* Module::identifier: the native identifier's bytes, copied to a String.
Module_identifier(m) ==
    /\ m.type = "Module"
    /\ last' = [Returned("Module::identifier", "Ok", "None", m.ptr, Called(0)) EXCEPT
                    !.bytes = from_raw_parts(nat[m.ptr].mem, nat[m.ptr].size),
                    !.arg = m.name]
    /\ UNCHANGED <<nat, fs, host>>

\* A function is declared in a module: the Func handle borrows from the
\* module's Context.
Module_declare_function(m) ==
    /\ m.type = "Module"
    /\ CanAllocObject(nat)
    /\ nat' = Alloc(nat, NativeObject("function", <<>>, 0, "LLVMAddFunction", m.ptr))
    /\ host' = Keep(HostValue("Func", Len(nat) + 1, m.ctx, <<>>))
    /\ last' = Returned("Module::declare_function", "Ok", "None", Len(nat) + 1, Called(0))
    /\ UNCHANGED fs

\* A Module goes out of scope: LLVMDisposeModule.  Its functions go with it,
\* and so do the Func handles into it.
Module_drop(m) ==
    /\ m.type = "Module"
    /\ nat' = Dispose(nat, m.ptr, "LLVMDisposeModule")
    /\ host' = host (-) SetToBag({m} \cup
                   {f \in Live : f.type = "Func" /\ nat[f.ptr].parent = m.ptr})
    /\ last' = Returned("drop", "Ok", "None", NULL, NoCall)
    /\ UNCHANGED fs

\* A Context goes out of scope: LLVMContextDispose.  The borrow checker lets
\* this happen only when no value that has a destructor and whose lifetime
\* parameter borrows from this Context is alive.
Context_drop(c) ==
    /\ c.type = "Context"
    /\ \A v \in Live : v.ctx # c.ptr
    /\ nat' = Dispose(nat, c.ptr, "LLVMContextDispose")
    /\ host' = Forget(c)
    /\ last' = Returned("drop", "Ok", "None", NULL, NoCall)
    /\ UNCHANGED fs

NewContext == \E fails \in BOOLEAN : Context_new(fails)
NewModule == \E c \in Live, name \in ModuleNames, fails \in BOOLEAN : Module_new(c, name, fails)
ReadIdentifier == \E m \in Live : Module_identifier(m)
DeclareFunction == \E m \in Live : Module_declare_function(m)
DropModule == \E m \in Live : Module_drop(m)
DropContext == \E c \in Live : Context_drop(c)

\* Contexts, modules and functions are created, read and dropped.
NextModule ==
    \/ NewContext
    \/ NewModule
    \/ ReadIdentifier
    \/ DeclareFunction
    \/ DropModule
    \/ DropContext

SpecModule == Init /\ [][NextModule]_vars

(***************************************************************************)
(* Pass managers (pass_manager.rs).                                        *)
(***************************************************************************)
Transforms == {"A", "B"}
TransformSlices == {<<>>, <<"A">>, <<"A", "B">>, <<"B", "A">>}

IsPassManager(v) == v.type \in {"FuncPassManager", "ModulePassManager"}

\* llvm_inner_impl!: self.0.as_ptr()
llvm(v) == v.ptr

\* A Transform, a native function pointer such as LLVMAddInstructionCombiningPass,
\* called on a native pass manager: it appends its pass to that manager's queue.
Transform(n, pm, t) == [n EXCEPT ![pm].queue = Append(@, t)]

\* PassManager::add: for transform in transforms.iter() { transform(self.llvm()) }
RECURSIVE add_loop(_, _, _)
add_loop(n, self, transforms) ==
    IF transforms = <<>> THEN n
    ELSE add_loop(Transform(n, llvm(self), Head(transforms)), self, Tail(transforms))

PassManager_add(v, transforms) ==
    /\ IsPassManager(v)
    /\ Len(v.added) + Len(transforms) <= MaxQueue
    /\ nat' = add_loop(nat, v, transforms)
    /\ host' = Forget(v) (+) SetToBag({[v EXCEPT !.added = @ \o transforms]})
    /\ last' = Returned("add", "Ok", "None", NULL, NoCall)
    /\ UNCHANGED fs

CanAllocManager(n) ==
    /\ CanAllocObject(n)
    /\ Cardinality({p \in 1..Len(n) : n[p].kind = "pm"}) < MaxManagers

\* FuncPassManager::new
FuncPassManager_ctor == "LLVMCreatePassManager"

FuncPassManager_new(fails) ==
    LET ptr == IF fails THEN NULL ELSE Len(nat) + 1
        w == wrap_inner(ptr)
    IN  /\ CanAllocManager(nat)
        /\ nat' = IF fails THEN nat
                  ELSE Alloc(nat, NativeObject("pm", <<>>, 0, FuncPassManager_ctor, NULL))
        \* the lifetime parameter of FuncPassManager<'a> is bound by nothing
        /\ host' = IF w.ok THEN Keep(HostValue("FuncPassManager", w.ptr, NULL, <<>>)) ELSE host
        /\ last' = [Returned("FuncPassManager::new", IF w.ok THEN "Ok" ELSE "Err", w.err, w.ptr, Called(0))
                       EXCEPT !.raw = ptr]
        /\ UNCHANGED fs

\* ModulePassManager::new(module: &Module<'a>) -> ModulePassManager<'a>
ModulePassManager_ctor == "LLVMCreateFunctionPassManagerForModule"

ModulePassManager_new(m, fails) ==
    LET ptr == IF fails THEN NULL ELSE Len(nat) + 1
        w == wrap_inner(ptr)
    IN  /\ m.type = "Module"
        /\ CanAllocManager(nat)
        /\ nat' = IF fails THEN nat
                  ELSE Alloc(nat, NativeObject("pm", <<>>, 0, ModulePassManager_ctor, llvm(m)))
        \* 'a is the lifetime parameter of the Module, the borrow of its
        \* Context; the borrow of the Module itself ends with the call
        /\ host' = IF w.ok THEN Keep(HostValue("ModulePassManager", w.ptr, m.ctx, <<>>)) ELSE host
        /\ last' = [Returned("ModulePassManager::new", IF w.ok THEN "Ok" ELSE "Err", w.err, w.ptr, Called(0))
                       EXCEPT !.raw = ptr]
        /\ UNCHANGED fs

\* The native run functions.  LLVMRunFunctionPassManager takes a function
\* pass manager (LLVMCreateFunctionPassManagerForModule) and LLVMRunPassManager
\* a module pass manager (LLVMCreatePassManager): on its own kind the call
\* applies the queue in order and returns 1 when a pass changed the target
\* (changed; never with an empty queue).  On the other kind the call has
\* undefined behaviour; of what it may do, three outcomes are kept: it
\* behaves as on its own kind ("none"), it applies nothing ("skipped"), or it
\* leaves the manager's queue emptied ("clobbered").  (A crash ends the run
\* and adds no state.)
RunKind(fn) ==
    IF fn = "LLVMRunFunctionPassManager"
    THEN "LLVMCreateFunctionPassManagerForModule"
    ELSE "LLVMCreatePassManager"

UBOutcomes == {"none", "skipped", "clobbered"}

NativeRun(n, fn, pm, changed, ub) ==
    LET own == (n[pm].ctor = RunKind(fn))
        sane == own \/ ub = "none"
        applied == IF sane THEN n[pm].queue ELSE <<>>
    IN  [status |-> IF changed /\ (applied # <<>> \/ ~own) THEN 1 ELSE 0,
         applied |-> applied,
         nat |-> IF ~own /\ ub = "clobbered" THEN [n EXCEPT ![pm].queue = <<>>] ELSE n]

RunReturned(v, fn, r) ==
    [Returned("run", "Ok", "None", v.ptr, Called(r.status)) EXCEPT
        !.ret = (r.status = 1), !.fn = fn, !.applied = r.applied]

\* impl PassManager for FuncPassManager: run(&self, f: &Func<'a>)
FuncPassManager_run(v, f, changed, ub) ==
    LET r == NativeRun(nat, "LLVMRunFunctionPassManager", llvm(v), changed, ub)
    IN  /\ v.type = "FuncPassManager"
        /\ f.type = "Func"
        /\ nat' = r.nat
        /\ last' = RunReturned(v, "LLVMRunFunctionPassManager", r)
        /\ UNCHANGED <<fs, host>>

\* impl PassManager for ModulePassManager: run(&self, module: &Module<'a>)
ModulePassManager_run(v, m, changed, ub) ==
    LET r == NativeRun(nat, "LLVMRunPassManager", llvm(v), changed, ub)
    IN  /\ v.type = "ModulePassManager"
        /\ m.type = "Module"
        /\ nat' = r.nat
        /\ last' = RunReturned(v, "LLVMRunPassManager", r)
        /\ UNCHANGED <<fs, host>>

\* impl Drop for ModulePassManager / FuncPassManager
PassManager_drop(v) ==
    /\ IsPassManager(v)
    /\ nat' = Dispose(nat, llvm(v), "LLVMDisposePassManager")
    /\ host' = Forget(v)
    /\ last' = Returned("drop", "Ok", "None", NULL, NoCall)
    /\ UNCHANGED fs

NewFuncPassManager == \E fails \in BOOLEAN : FuncPassManager_new(fails)
NewModulePassManager == \E m \in Live, fails \in BOOLEAN : ModulePassManager_new(m, fails)
AddTransforms == \E v \in Live, ts \in TransformSlices : PassManager_add(v, ts)
RunFuncPassManager ==
    \E v \in Live, f \in Live, changed \in BOOLEAN, ub \in UBOutcomes :
        FuncPassManager_run(v, f, changed, ub)
RunModulePassManager ==
    \E v \in Live, m \in Live, changed \in BOOLEAN, ub \in UBOutcomes :
        ModulePassManager_run(v, m, changed, ub)
DropPassManager == \E v \in Live : PassManager_drop(v)

NextPM ==
    \/ NewContext
    \/ NewModule
    \/ ReadIdentifier
    \/ DeclareFunction
    \/ DropModule
    \/ DropContext
    \/ NewFuncPassManager
    \/ NewModulePassManager
    \/ AddTransforms
    \/ RunFuncPassManager
    \/ RunModulePassManager
    \/ DropPassManager

SpecPM == Init /\ [][NextPM]_vars

\* Handles of every kind are constructed and dropped.
NextHandles ==
    \/ FromSlice
    \/ DropBuffer
    \/ NewContext
    \/ NewModule
    \/ DropModule
    \/ DropContext
    \/ NewFuncPassManager
    \/ NewModulePassManager
    \/ DropPassManager

SpecHandles == Init /\ [][NextHandles]_vars

(***************************************************************************)
(* The claims.                                                             *)
(***************************************************************************)
HandleTypes ==
    {"MemoryBuffer", "FuncPassManager", "ModulePassManager", "Context", "Module", "Func"}

ConstructedType(op) ==
    CASE op = "from_slice" -> "MemoryBuffer"
      [] op = "FuncPassManager::new" -> "FuncPassManager"
      [] op = "ModulePassManager::new" -> "ModulePassManager"
      [] OTHER -> "None"

\* C1: a handle constructor whose native call yields null returns
\* Err(NullPointer) and no handle; one whose native call yields a non-null
\* pointer returns a handle wrapping exactly that pointer; and no live handle
\* holds a null inner pointer.
NullPointerRejected ==
    /\ \A v \in Live : v.type \in HandleTypes => v.ptr # NULL
    /\ (ConstructedType(last.op) # "None" /\ last.called) =>
          IF last.raw = NULL
          THEN /\ last.status = "Err"
               /\ last.err = "NullPointer"
               /\ last.handle = NULL
          ELSE /\ last.status = "Ok"
               /\ last.handle = last.raw
               /\ \E v \in Live : v.ptr = last.raw /\ v.type = ConstructedType(last.op)

\* C1's case: ModulePassManager::new is handed null by the native constructor
\* while a MemoryBuffer made by from_slice is alive.
NullPointerRejectedWitness ==
    /\ last.op = "ModulePassManager::new"
    /\ last.raw = NULL
    /\ last.err = "NullPointer"
    /\ \E v \in Live : v.type = "MemoryBuffer"

\* C2: when the native file read fails (status 1, diagnostic set, buffer
\* left null), from_file returns Err(Message) (or Io) carrying the native
\* diagnostic verbatim, never NullPointer and never Ok.
ReadFailureIsMessage ==
    (last.op = "from_file" /\ last.called /\ last.native = 1) =>
        /\ last.status = "Err"
        /\ last.err \in {"Message", "Io"}
        /\ last.handle # NULL
        /\ Message_as_ref(nat, last.handle) = ReadDiagnostic

\* C3: write_to_file writes the buffer's bytes, and from_file of a file the
\* native call read (status 0, buffer set) returns Ok with a buffer whose
\* bytes and length are the file's.
FileRoundTrip ==
    /\ (last.op = "write_to_file" /\ last.status = "Ok") =>
          fs[last.arg] = File(MemoryBuffer_as_ref(nat, last.handle))
    /\ (last.op = "from_file" /\ last.called /\ last.native = 0) =>
          /\ last.status = "Ok"
          /\ last.handle # NULL
          /\ MemoryBuffer_as_ref(nat, last.handle) = fs[last.arg].data
          /\ MemoryBuffer_len(nat, last.handle) = Len(fs[last.arg].data)

Disposer(kind) ==
    CASE kind = "buffer" -> "LLVMDisposeMemoryBuffer"
      [] kind = "message" -> "LLVMDisposeMessage"
      [] kind = "pm" -> "LLVMDisposePassManager"
      [] kind = "module" -> "LLVMDisposeModule"
      [] OTHER -> "LLVMContextDispose"

\* C4: every native buffer and message handed to the layer is disposed by
\* its own dispose function, never twice, and exactly once by the time every
\* host value has been dropped; null is never handed to LLVMDisposeMessage.
ExactlyOnceDisposal ==
    /\ \A p \in 1..Len(nat) :
          /\ Len(nat[p].disposed) <= 1
          /\ \A i \in 1..Len(nat[p].disposed) : nat[p].disposed[i] = Disposer(nat[p].kind)
    /\ host = EmptyBag => \A p \in 1..Len(nat) : Len(nat[p].disposed) = 1
    /\ \A i \in 1..Len(last.freed) : last.freed[i] # NULL

\* C5: a path that is not UTF-8 or holds a NUL, and a buffer name that holds
\* a NUL, are answered with an error (InvalidPath for from_file), with no
\* native call made.
InvalidStringsRejected ==
    (/\ last.op \in {"from_file", "from_slice"}
     /\ (HasNul(last.arg) \/ ~to_str(last.arg).some)) =>
        /\ last.status = "Err"
        /\ last.op = "from_file" => last.err = "InvalidPath"
        /\ ~last.called

\* C6: a Message over a native string reads back that string's bytes and
\* their number; a Message over null has length 0 and reads as "<NULL>";
\* dropping a Message hands its pointer to LLVMDisposeMessage exactly when
\* the pointer is not null.
MessageRoundTrip ==
    /\ last.op \in {"Message::as_ref", "String::from"} =>
          IF last.handle = NULL
          THEN last.len = 0 /\ last.bytes = <<60, 78, 85, 76, 76, 62>>
          ELSE last.len = Len(last.arg) /\ last.bytes = last.arg
    /\ last.op \in {"Message::drop", "String::from"} =>
          last.freed = IF last.handle = NULL THEN <<>> ELSE <<last.handle>>

\* C6's case: a Message over the native string "Er" has been turned into a
\* String and its pointer disposed.
MessageRoundTripWitness ==
    /\ last.op = "String::from"
    /\ last.handle # NULL
    /\ last.bytes = <<69, 114>>
    /\ last.freed = <<last.handle>>

\* C7: the queue of a pass manager's native object is the concatenation, in
\* call order, of the slices given to add; run applies exactly that queue,
\* leaves it as it was, and returns true exactly on native status 1.
QueueOrder ==
    /\ \A v \in Live : IsPassManager(v) => nat[v.ptr].queue = v.added
    /\ last.op = "run" =>
          /\ last.ret = (last.native = 1)
          /\ \A v \in Live : v.ptr = last.handle => last.applied = v.added

VariantConsistency ==
    last.op = "run" => nat[last.handle].ctor = RunKind(last.fn)

\* C10: while a ModulePassManager is alive, the Module it was constructed
\* from has not been disposed, and no live value borrows from a Context that
\* has been disposed.
OwnerOutlivesOwned ==
    \A v \in Live :
        /\ v.type = "ModulePassManager" => nat[nat[v.ptr].parent].disposed = <<>>
        /\ v.ctx # NULL => nat[v.ctx].disposed = <<>>

=============================================================================
